---------------------------- MODULE Spec2Model ----------------------------
(***************************************************************************)
(* A model of the custom BitArray package: the BitArray class               *)
(* (bitarray/core.py) with its parsers, its element-wise operations, its    *)
(* equality, append and the expression evaluator BitArray.execute, and the  *)
(* helper predicates of bitarray/services.py.                               *)
(*                                                                          *)
(* Python values are records [type, chars, items, n]: `type` is the name of *)
(* the value's exact class, `chars` the characters of a str, `items` the    *)
(* elements of a list, tuple, dict view or of a BitArray's bit list, `n`    *)
(* the number of an int, bool or float.  A call ends in an outcome          *)
(* [kind, exc, val]: a return of `val` or a raise of exception `exc`.       *)
(***************************************************************************)
EXTENDS Naturals, Sequences, FiniteSets

VARIABLES
    store,   \* the list objects that back BitArray instances: list id -> elements
    obj,     \* the BitArray instances of a session: instance -> id of its __bits list
    last,    \* the most recent call made in the session
    inputs,  \* the arguments a function is applied to
    shape,   \* how the text in `inputs` was written, when it was built from operands
    call,    \* the function applied to `inputs` ("" before the call)
    ret      \* the outcome of that call

vars == <<store, obj, last, inputs, shape, call, ret>>

-----------------------------------------------------------------------------
(* Bounds of the model *)

MaxLen == 2        \* longest bit list of a session instance / of an operand
MaxObjs == 2       \* most BitArray instances alive in a session
MaxSrcLen == 3     \* longest constructor source (string or list)
MaxExprLen == 4    \* longest arbitrary text handed to execute
MaxBits == 2       \* longest operand literal of a well-formed expression

-----------------------------------------------------------------------------
(* Python values *)

Str(s) == [type |-> "str", chars |-> s, items |-> <<>>, n |-> 0]
List(xs) == [type |-> "list", chars |-> <<>>, items |-> xs, n |-> 0]
Tuple(xs) == [type |-> "tuple", chars |-> <<>>, items |-> xs, n |-> 0]
DictValues(xs) == [type |-> "dict_values", chars |-> <<>>, items |-> xs, n |-> 0]
Int(k) == [type |-> "int", chars |-> <<>>, items |-> <<>>, n |-> k]
Bool(b) == [type |-> "bool", chars |-> <<>>, items |-> <<>>, n |-> IF b THEN 1 ELSE 0]
Float(k) == [type |-> "float", chars |-> <<>>, items |-> <<>>, n |-> k]
None == [type |-> "NoneType", chars |-> <<>>, items |-> <<>>, n |-> 0]
\* a BitArray by value: `items` are the elements of its bit list
BitArrayOf(bits) == [type |-> "BitArray", chars |-> <<>>, items |-> bits, n |-> 0]

Return(v) == [kind |-> "return", exc |-> "", val |-> v]
Raise(e) == [kind |-> "raise", exc |-> e, val |-> None]

\* bool(v): the truth value Python gives v
Truthy(v) ==
    CASE v.type = "NoneType" -> FALSE
      [] v.type = "str" -> Len(v.chars) > 0
      [] v.type \in {"int", "bool", "float"} -> v.n # 0
      [] OTHER -> Len(v.items) > 0   \* list, tuple, dict view, BitArray (__len__)

\* len(v) of a BitArray
LenOf(v) == Len(v.items)

SeqsUpTo(S, n) == UNION {[1..k -> S] : k \in 0..n}

-----------------------------------------------------------------------------
(* bitarray/settings.py *)

STR_ZERO_AND_ONE == {"0", "1"}
CHAR_LENGTH == 1
LIST_ZERO_AND_ONE == {0, 1}

-----------------------------------------------------------------------------
(* bitarray/services.py *)

\* len(char) of one character of a str
CharLen(char) == 1

is_char_0_or_1(char) ==
    IF CharLen(char) # CHAR_LENGTH THEN Raise("ValueError")
    ELSE Return(Bool(char \in STR_ZERO_AND_ONE))

is_bool(item) == item.type = "bool"

\* faulty variant: the class of the item is not looked at
is_int_0_or_1_AnyNumber(item) ==
    item.type \in {"int", "bool", "float"} /\ item.n \in LIST_ZERO_AND_ONE

\* `item in [0, 1]` compares by value: True, 1 and 1.0 are all "in" the list
is_int_0_or_1(item) ==
    LET is_int == item.type = "int"
        is_0_or_1 == item.type \in {"int", "bool", "float"} /\ item.n \in LIST_ZERO_AND_ONE
    IN  is_int /\ is_0_or_1

-----------------------------------------------------------------------------
(* BitArray.parse_str, parse_list, try_parse, __init__ *)

\* bool(int(c)) of a character that passed is_char_0_or_1
CharToBool(c) == Bool(c # "0")

\* all(map(is_char_0_or_1, string)) stops at the first character that is refused
\* or that makes the helper raise; either way a ValueError leaves parse_str
parse_str(string) ==
    IF \E i \in 1..Len(string.chars) :
           LET r == is_char_0_or_1(string.chars[i])
           IN  r.kind = "raise" \/ ~ Truthy(r.val)
    THEN Raise("ValueError")
    ELSE Return(List([i \in 1..Len(string.chars) |-> CharToBool(string.chars[i])]))

is_bit(bit) == is_bool(bit) \/ is_int_0_or_1(bit)

parse_list(lst) ==
    IF ~ \A i \in 1..Len(lst.items) : is_bit(lst.items[i])
    THEN Raise("ValueError")
    ELSE Return(List([i \in 1..Len(lst.items) |-> Bool(Truthy(lst.items[i]))]))

\* PARSERS.get(type(new_bits)): the exact class decides
try_parse(new_bits) ==
    CASE new_bits.type = "str" -> parse_str(new_bits)
      [] new_bits.type = "list" -> parse_list(new_bits)
      [] OTHER -> Raise("TypeError")

\* BitArray(initializer), by value
Construct(initializer) ==
    IF ~ Truthy(initializer)
    THEN Return(BitArrayOf(<<>>))
    ELSE LET parsed == try_parse(initializer)
         IN  IF parsed.kind = "raise" THEN parsed
             ELSE Return(BitArrayOf(parsed.val.items))

-----------------------------------------------------------------------------
(* BitArray._check_support and the element-wise operations, by value *)

\* faulty variant: the length is tested before the type, with len() of whatever came
_check_support_LengthFirst(self, other) ==
    IF LenOf(self) # (IF other.type = "str" THEN Len(other.chars) ELSE Len(other.items))
    THEN Raise("ValueError")
    ELSE IF other.type # "BitArray" THEN Raise("TypeError")
    ELSE Return(None)

\* returns None, or raises: the type is tested before the length
_check_support(self, other) ==
    IF other.type # "BitArray" THEN Raise("TypeError")
    ELSE IF LenOf(self) # LenOf(other) THEN Raise("ValueError")
    ELSE Return(None)

\* zip(self.bits, other.bits) stops at the shorter list
ZipLen(self, other) == IF LenOf(self) <= LenOf(other) THEN LenOf(self) ELSE LenOf(other)

\* Python's `x and y`, `x or y`, `not x`, `x is y` on two elements
AndElem(x, y) == IF ~ Truthy(x) THEN x ELSE y
OrElem(x, y) == IF Truthy(x) THEN x ELSE y
NotElem(x) == Bool(~ Truthy(x))
IsElem(x, y) == Bool(x = y)

__invert__(self) ==
    Construct(List([i \in 1..LenOf(self) |-> NotElem(self.items[i])]))

__and__(self, other) ==
    LET chk == _check_support(self, other)
    IN  IF chk.kind = "raise" THEN chk
        ELSE Construct(List([i \in 1..ZipLen(self, other) |->
                                AndElem(self.items[i], other.items[i])]))

__or__(self, other) ==
    LET chk == _check_support(self, other)
    IN  IF chk.kind = "raise" THEN chk
        ELSE Construct(List([i \in 1..ZipLen(self, other) |->
                                OrElem(self.items[i], other.items[i])]))

\* faulty variant: self | other: the left operand is not inverted
implies_NoInvert(self, other) ==
    LET chk == _check_support(self, other)
    IN  IF chk.kind = "raise" THEN chk ELSE __or__(self, other)

\* ~self | other
implies(self, other) ==
    LET chk == _check_support(self, other)
    IN  IF chk.kind = "raise" THEN chk
        ELSE LET inv == __invert__(self)
             IN  IF inv.kind = "raise" THEN inv ELSE __or__(inv.val, other)

\* the bitwise equivalence (the spec's `equivalence`)
equals(self, other) ==
    LET chk == _check_support(self, other)
    IN  IF chk.kind = "raise" THEN chk
        ELSE Construct(List([i \in 1..ZipLen(self, other) |->
                                IsElem(self.items[i], other.items[i])]))

\* list == list: same length and pairwise equal values
ListEq(xs, ys) ==
    Len(xs) = Len(ys) /\ \A i \in 1..Len(xs) : xs[i].n = ys[i].n

\* faulty variant: anything with a bit list of the same length is compared
__eq__AnyType(self, other) ==
    IF LenOf(self) # LenOf(other)
    THEN Return(Bool(FALSE))
    ELSE Return(Bool(ListEq(self.items, other.items)))

__eq__(self, other) ==
    IF other.type # "BitArray" \/ LenOf(self) # LenOf(other)
    THEN Return(Bool(FALSE))
    ELSE Return(Bool(ListEq(self.items, other.items)))

__ne__(self, other) ==
    LET eq == __eq__(self, other)
    IN  IF eq.kind = "raise" THEN eq ELSE Return(Bool(~ Truthy(eq.val)))

__len__(self) == Return(Int(Len(self.items)))

\* str(int(b)) of one element
Digit(b) == IF Truthy(b) THEN "1" ELSE "0"

__repr__(self) ==
    Return(Str(<<"BitArray <">> \o [i \in 1..LenOf(self) |-> Digit(self.items[i])]
               \o <<"> object">>))

-----------------------------------------------------------------------------
(* BitArray.execute *)

\* faulty variant: expr.strip(" "): only the spaces at the two ends are dropped
StripSpaces(s) ==
    LET keep == {i \in 1..Len(s) : s[i] # " "}
    IN  IF keep = {} THEN <<>>
        ELSE SubSeq(s, CHOOSE i \in keep : \A j \in keep : i <= j,
                       CHOOSE i \in keep : \A j \in keep : j <= i)

\* expr.replace(" ", ""): every space character is dropped, nothing else
RECURSIVE RemoveSpaces(_)
RemoveSpaces(s) ==
    IF s = <<>> THEN <<>>
    ELSE IF Head(s) = " " THEN RemoveSpaces(Tail(s))
    ELSE <<Head(s)>> \o RemoveSpaces(Tail(s))

\* the position after the longest run of [01] that starts at position i
RECURSIVE BitsEnd(_, _)
BitsEnd(s, i) ==
    IF i <= Len(s) /\ s[i] \in {"0", "1"} THEN BitsEnd(s, i + 1) ELSE i

\* the position after an optional "~" at position i
TildeEnd(s, i) == IF i <= Len(s) /\ s[i] = "~" THEN i + 1 ELSE i

\* the position after the operator [&=|]|-> at position i, or 0 when there is none
OpEnd(s, i) ==
    IF i <= Len(s) /\ s[i] \in {"&", "=", "|"} THEN i + 1
    ELSE IF i + 1 <= Len(s) /\ s[i] = "-" /\ s[i + 1] = ">" THEN i + 2
    ELSE 0

\* pattern.fullmatch(expr) for (?P<x_bits>~?[01]*)(?P<op>[&=|]|->)(?P<y_bits>~?[01]*):
\* the classes of the three groups are disjoint, so the greedy scan is the only match
fullmatch(s) ==
    LET xe == BitsEnd(s, TildeEnd(s, 1))
        oe == OpEnd(s, xe)
        ye == IF oe = 0 THEN 0 ELSE BitsEnd(s, TildeEnd(s, oe))
    IN  IF oe # 0 /\ ye = Len(s) + 1
        THEN [matched |-> TRUE,
              x_bits |-> SubSeq(s, 1, xe - 1),
              op |-> SubSeq(s, xe, oe - 1),
              y_bits |-> SubSeq(s, oe, Len(s))]
        ELSE [matched |-> FALSE, x_bits |-> <<>>, op |-> <<>>, y_bits |-> <<>>]

\* faulty variant: the "~" is cut off and the operand is not inverted
to_bitarray_NoInvert(bits) ==
    IF ~ (bits # <<>> /\ Head(bits) = "~")
    THEN Construct(Str(bits))
    ELSE Construct(Str(Tail(bits)))

to_bitarray(bits) ==
    IF ~ (bits # <<>> /\ Head(bits) = "~")
    THEN Construct(Str(bits))
    ELSE LET b == Construct(Str(Tail(bits)))
         IN  IF b.kind = "raise" THEN b ELSE __invert__(b.val)

\* faulty variant: the lengths of the two operands are not compared
execute_NoLengthCheck(expr) ==
    IF expr.type # "str" THEN Return(None)
    ELSE IF ~ Truthy(expr) THEN Return(None)
    ELSE LET m == fullmatch(RemoveSpaces(expr.chars))
         IN  IF ~ m.matched THEN Return(None)
             ELSE LET x == to_bitarray(m.x_bits)
                      y == to_bitarray(m.y_bits)
                  IN  IF x.kind = "raise" THEN x
                      ELSE IF y.kind = "raise" THEN y
                      ELSE IF m.op = <<"&">> THEN __and__(x.val, y.val)
                      ELSE IF m.op = <<"|">> THEN __or__(x.val, y.val)
                      ELSE IF m.op = <<"-", ">">> THEN implies(x.val, y.val)
                      ELSE equals(x.val, y.val)

execute(expr) ==
    IF expr.type # "str" THEN Return(None)
    ELSE IF ~ Truthy(expr) THEN Return(None)
    ELSE LET m == fullmatch(RemoveSpaces(expr.chars))
         IN  IF ~ m.matched THEN Return(None)
             ELSE LET x == to_bitarray(m.x_bits)
                      y == to_bitarray(m.y_bits)
                  IN  IF x.kind = "raise" THEN x
                      ELSE IF y.kind = "raise" THEN y
                      ELSE IF LenOf(x.val) # LenOf(y.val) THEN Return(None)
                      ELSE IF m.op = <<"&">> THEN __and__(x.val, y.val)
                      ELSE IF m.op = <<"|">> THEN __or__(x.val, y.val)
                      ELSE IF m.op = <<"-", ">">> THEN implies(x.val, y.val)
                      ELSE equals(x.val, y.val)

-----------------------------------------------------------------------------
(* Input sets *)

Bits(n) == SeqsUpTo({Bool(TRUE), Bool(FALSE)}, n)
BitArrays(n) == {BitArrayOf(b) : b \in Bits(n)}
BitChars(n) == SeqsUpTo({"0", "1"}, n)

\* sources that are neither a str, a list nor None (falsy and truthy ones), and
\* the str and list sources
Scalars == {Int(0), Int(1), Int(2), Bool(FALSE), Bool(TRUE), Float(0), Float(1), Float(2)}
Containers ==
    {Tuple(<<>>), Tuple(<<Int(1), Int(0)>>), DictValues(<<>>),
     DictValues(<<Bool(FALSE), Bool(TRUE)>>), BitArrayOf(<<>>), BitArrayOf(<<Bool(TRUE)>>)}
ListElems == {Bool(TRUE), Bool(FALSE), Int(0), Int(1), Int(2), Float(1), Str(<<"1">>)}
StrSources == {Str(s) : s \in SeqsUpTo({"0", "1", "2"}, MaxSrcLen)}
ListSources == {List(xs) : xs \in SeqsUpTo(ListElems, MaxSrcLen)}
Sources == StrSources \cup ListSources \cup Scalars \cup Containers \cup {None}

\* the three ways to write the bit vector b as a constructor source
AsStr(b) == Str([i \in 1..Len(b) |-> IF b[i].n = 1 THEN "1" ELSE "0"])
AsBools(b) == List(b)
AsInts(b) == List([i \in 1..Len(b) |-> Int(b[i].n)])

\* what a binary operation or a comparison may be handed as `other`
Others ==
    BitArrays(MaxLen) \cup
    {None, Str(<<"1", "0">>), Str(<<>>), Float(1), Int(1), Bool(TRUE),
     List(<<Bool(TRUE), Bool(FALSE)>>), List(<<>>), Tuple(<<Bool(TRUE)>>)}

\* the characters of an arbitrary text: "\t" is whitespace that is not a space,
\* "2" is a digit that is not a bit
ExprChars == {"0", "1", "~", "&", "|", "=", "-", ">", " ", "\t", "2"}
OpSymbols == {<<"&">>, <<"|">>, <<"-", ">">>, <<"=">>}
Pad(k) == [i \in 1..k |-> " "]
Tilde(neg) == IF neg THEN <<"~">> ELSE <<>>

NoShape == [wf |-> FALSE, xneg |-> FALSE, x |-> <<>>, op |-> <<>>,
            yneg |-> FALSE, y |-> <<>>, pads |-> <<0, 0, 0>>]
Shapes ==
    [wf : {TRUE}, xneg : BOOLEAN, x : BitChars(MaxBits), op : OpSymbols,
     yneg : BOOLEAN, y : BitChars(MaxBits), pads : [1..3 -> 0..1]]

\* the text of a shape: [~]x op [~]y with spaces before x, around op and after y
TextOf(sh) ==
    Pad(sh.pads[1]) \o Tilde(sh.xneg) \o sh.x \o Pad(sh.pads[2]) \o sh.op
        \o Pad(sh.pads[3]) \o Tilde(sh.yneg) \o sh.y \o Pad(sh.pads[1])
        \* (as many spaces after y as before x)

NonTexts == {None, Int(0), Int(1), Float(1), Bool(TRUE), List(<<Str(<<"1", "&", "1">>)>>),
             BitArrayOf(<<Bool(TRUE)>>)}

NoCall == [op |-> "", self |-> 0, ok |-> TRUE]

-----------------------------------------------------------------------------
(* Applying one function to drawn inputs *)

IdleSession == store = <<>> /\ obj = <<>> /\ last = NoCall

Apply(fn, out) ==
    /\ call = ""
    /\ call' = fn
    /\ ret' = out
    /\ UNCHANGED <<store, obj, last, inputs, shape>>

\* BitArray(source)
InitConstruct ==
    /\ IdleSession
    /\ inputs \in {<<src>> : src \in Sources}
    /\ shape = NoShape /\ call = "" /\ ret = Return(None)

DoConstruct == Apply("BitArray", Construct(inputs[1]))

NextConstruct == DoConstruct

SpecConstruct == InitConstruct /\ [][NextConstruct]_vars

\* self <op> other, with self and a third vector for comparison
InitOps ==
    /\ IdleSession
    /\ inputs \in BitArrays(MaxLen) \X Others \X BitArrays(MaxLen)
    /\ shape = NoShape /\ call = "" /\ ret = Return(None)

DoInvert == Apply("__invert__", __invert__(inputs[1]))
DoAnd == Apply("__and__", __and__(inputs[1], inputs[2]))
DoOr == Apply("__or__", __or__(inputs[1], inputs[2]))
DoImplies == Apply("implies", implies(inputs[1], inputs[2]))
DoEquals == Apply("equals", equals(inputs[1], inputs[2]))
DoEq == Apply("__eq__", __eq__(inputs[1], inputs[2]))
DoNe == Apply("__ne__", __ne__(inputs[1], inputs[2]))
DoLen == Apply("__len__", __len__(inputs[1]))
DoRepr == Apply("__repr__", __repr__(inputs[1]))

NextOps ==
    \/ DoInvert \/ DoAnd \/ DoOr \/ DoImplies \/ DoEquals
    \/ DoEq \/ DoNe \/ DoLen \/ DoRepr

SpecOps == InitOps /\ [][NextOps]_vars

\* BitArray.execute(text)
InitExecute ==
    /\ IdleSession
    /\ \/ /\ inputs \in {<<Str(t)>> : t \in SeqsUpTo(ExprChars, MaxExprLen)}
          /\ shape = NoShape
       \/ /\ inputs \in {<<v>> : v \in NonTexts}
          /\ shape = NoShape
       \/ /\ shape \in Shapes
          /\ inputs = <<Str(TextOf(shape))>>
    /\ call = "" /\ ret = Return(None)

DoExecute == Apply("execute", execute(inputs[1]))

NextExecute == DoExecute

SpecExecute == InitExecute /\ [][NextExecute]_vars

-----------------------------------------------------------------------------
(* A session: BitArray instances that live side by side, each holding a   *)
(* reference to the list object behind its __bits                         *)

\* the elements of instance o, and o as a value
BitsOf(o) == store[obj[o]]
Value(o) == BitArrayOf(BitsOf(o))

Instances == 1..Len(obj)

\* what a session hands to BitArray(...) and to append(...) as a literal
SessionSources ==
    {Str(<<>>), Str(<<"0">>), Str(<<"1">>), Str(<<"1", "0">>),
     List(<<Bool(TRUE), Int(0)>>), None, Str(<<"2">>), Int(1)}

\* faulty variant: self.__bits = initializer: a list that is handed in is kept, not copied
AllocateShared(ref, items) ==
    IF ref # 0 THEN [id |-> ref, store |-> store]
    ELSE [id |-> Len(store) + 1, store |-> Append(store, items)]

\* __init__: self.__bits = [] makes a new list object, and += copies the parsed
\* elements into it. `ref` is the list object the initializer is (0: a literal).
Allocate(ref, items) ==
    [id |-> Len(store) + 1, store |-> Append(store, items)]

\* a call that built a new instance from outcome `out`, or raised and built none
Build(op, self, ref, out) ==
    IF out.kind = "raise"
    THEN /\ last' = [op |-> op, self |-> self, ok |-> FALSE]
         /\ UNCHANGED <<store, obj>>
    ELSE LET a == Allocate(ref, out.val.items)
         IN  /\ Len(obj) < MaxObjs
             /\ store' = a.store
             /\ obj' = Append(obj, a.id)
             /\ last' = [op |-> op, self |-> self, ok |-> TRUE]

\* a call that builds nothing and changes nothing
Query(op, self, out) ==
    /\ last' = [op |-> op, self |-> self, ok |-> out.kind = "return"]
    /\ UNCHANGED <<store, obj>>

\* self.__bits += parsed: the list object of `self` is extended in place
Extend(op, o, parsed) ==
    IF parsed.kind = "raise"
    THEN /\ last' = [op |-> op, self |-> o, ok |-> FALSE]
         /\ UNCHANGED <<store, obj>>
    ELSE /\ Len(BitsOf(o)) + Len(parsed.val.items) <= MaxLen
         /\ store' = [store EXCEPT ![obj[o]] = @ \o parsed.val.items]
         /\ last' = [op |-> op, self |-> o, ok |-> TRUE]
         /\ UNCHANGED obj

Idle == UNCHANGED <<inputs, shape, call, ret>>

\* x = BitArray(src)
New(src) == Build("BitArray", 0, 0, Construct(src)) /\ Idle

\* y = BitArray(x.bits): the initializer is the list object of x itself
NewFromBits(p) == Build("BitArray_bits", p, obj[p], Construct(List(BitsOf(p)))) /\ Idle

\* x.append(src)
AppendTo(o, src) == Extend("append", o, try_parse(src)) /\ Idle

\* x.append(y.bits), y possibly x itself
AppendBits(o, p) == Extend("append_bits", o, try_parse(List(BitsOf(p)))) /\ Idle

\* faulty variant: the bits of self are inverted where they are, and self is returned
InvertInPlace(o) ==
    /\ store' = [store EXCEPT ![obj[o]] = __invert__(Value(o)).val.items]
    /\ last' = [op |-> "__invert__", self |-> o, ok |-> TRUE]
    /\ UNCHANGED obj
    /\ Idle

Invert(o) == Build("__invert__", o, 0, __invert__(Value(o))) /\ Idle
And(o, p) == Build("__and__", o, 0, __and__(Value(o), Value(p))) /\ Idle
Or(o, p) == Build("__or__", o, 0, __or__(Value(o), Value(p))) /\ Idle
Implies(o, p) == Build("implies", o, 0, implies(Value(o), Value(p))) /\ Idle
Equals(o, p) == Build("equals", o, 0, equals(Value(o), Value(p))) /\ Idle
Eq(o, p) == Query("__eq__", o, __eq__(Value(o), Value(p))) /\ Idle
LenCall(o) == Query("__len__", o, __len__(Value(o))) /\ Idle
Repr(o) == Query("__repr__", o, __repr__(Value(o))) /\ Idle

Init ==
    /\ store = <<>> /\ obj = <<>> /\ last = NoCall
    /\ inputs = <<>> /\ shape = NoShape /\ call = "" /\ ret = Return(None)

Next ==
    \/ \E src \in SessionSources : New(src)
    \/ \E p \in Instances : NewFromBits(p)
    \/ \E o \in Instances, src \in SessionSources : AppendTo(o, src)
    \/ \E o, p \in Instances : AppendBits(o, p)
    \/ \E o \in Instances : Invert(o)
    \/ \E o, p \in Instances : And(o, p)
    \/ \E o, p \in Instances : Or(o, p)
    \/ \E o, p \in Instances : Implies(o, p)
    \/ \E o, p \in Instances : Equals(o, p)
    \/ \E o, p \in Instances : Eq(o, p)
    \/ \E o \in Instances : LenCall(o)
    \/ \E o \in Instances : Repr(o)

Spec == Init /\ [][Next]_vars

-----------------------------------------------------------------------------
(* Properties of the constructor (SpecConstruct) *)

Constructed == call = "BitArray"
Source == inputs[1]

IsBoolean(e) == e.type = "bool"
IsZeroOrOne(e) == e.type = "int" /\ e.n \in {0, 1}
HasInvalidElement(lst) ==
    \E i \in 1..Len(lst.items) : ~ IsBoolean(lst.items[i]) /\ ~ IsZeroOrOne(lst.items[i])
MixesRepresentations(lst) ==
    /\ \E i \in 1..Len(lst.items) : IsBoolean(lst.items[i])
    /\ \E i \in 1..Len(lst.items) : IsZeroOrOne(lst.items[i])

\* the vector a valid sequence denotes: element i is true iff symbol i denotes 1
Denoted(lst) == BitArrayOf([i \in 1..Len(lst.items) |-> Bool(lst.items[i].n = 1)])

\* C6 as stated: a sequence with an element that is neither a boolean nor an
\* integer 0/1, and also a sequence that mixes booleans with 0/1 integers, fails
\* with InvalidElement (ValueError).
C6_AsStated ==
    (Constructed /\ Source.type = "list")
        => ((HasInvalidElement(Source) \/ MixesRepresentations(Source))
                => ret = Raise("ValueError"))

\* C6 amended: a sequence fails with ValueError exactly when it contains an
\* element that is neither a boolean nor an integer 0/1; every other sequence,
\* a mix of booleans and 0/1 integers included, yields the vector it denotes.
C6_MixedAccepted ==
    (Constructed /\ Source.type = "list")
        => /\ HasInvalidElement(Source) => ret = Raise("ValueError")
           /\ ~ HasInvalidElement(Source) => ret = Return(Denoted(Source))

C6_Witness ==
    /\ Constructed /\ Source.type = "list"
    /\ MixesRepresentations(Source) /\ ~ HasInvalidElement(Source)
    /\ ret = Return(BitArrayOf(<<Bool(TRUE), Bool(FALSE), Bool(TRUE)>>))

\* C7: a source that is neither a string, nor a list, nor None fails with
\* UnsupportedType (TypeError), and no BitVector is produced.
C7_UnsupportedTypeRaises ==
    (Constructed /\ Source.type \notin {"str", "list", "NoneType"})
        => ret = Raise("TypeError")

-----------------------------------------------------------------------------
(* Properties of the operations (SpecOps) *)

Self == inputs[1]
Other == inputs[2]
Third == inputs[3]
BinaryOps == {"__and__", "__or__", "implies", "equals"}

\* element i of a vector as a truth value
Bit(v, i) == v.items[i].n = 1

TruthTable(op, a, b) ==
    CASE op = "__and__" -> a /\ b
      [] op = "__or__" -> a \/ b
      [] op = "implies" -> (~ a) \/ b
      [] op = "equals" -> a <=> b

\* C4: on vectors of equal length n (n = 0 included) every element-wise operation
\* returns a vector of length n that agrees with the truth table at every index;
\* implies(a, b) is not(a).or(b), and not(not(a)) is a.
C4_TruthTables ==
    /\ (call \in BinaryOps /\ Other.type = "BitArray" /\ LenOf(Other) = LenOf(Self))
           => ret = Return(BitArrayOf([i \in 1..LenOf(Self) |->
                               Bool(TruthTable(call, Bit(Self, i), Bit(Other, i)))]))
    /\ (call = "implies" /\ Other.type = "BitArray" /\ LenOf(Other) = LenOf(Self))
           => ret = __or__(__invert__(Self).val, Other)
    /\ call = "__invert__"
           => /\ ret = Return(BitArrayOf([i \in 1..LenOf(Self) |-> Bool(~ Bit(Self, i))]))
              /\ __invert__(ret.val) = Return(Self)

C4_Witness ==
    /\ call = "implies"
    /\ Self = BitArrayOf(<<Bool(TRUE), Bool(FALSE)>>)
    /\ Other = BitArrayOf(<<Bool(FALSE), Bool(FALSE)>>)
    /\ ret = Return(BitArrayOf(<<Bool(FALSE), Bool(TRUE)>>))

\* C5: a binary operation fails with TypeError when `other` is not a BitVector,
\* whatever its length, fails with ValueError when `other` is a BitVector of
\* another length, and returns a result when it is a BitVector of equal length.
C5_TypeThenLength ==
    call \in BinaryOps
        => /\ Other.type # "BitArray" => ret = Raise("TypeError")
           /\ (Other.type = "BitArray" /\ LenOf(Other) # LenOf(Self))
                  => ret = Raise("ValueError")
           /\ (Other.type = "BitArray" /\ LenOf(Other) = LenOf(Self))
                  => (ret.kind = "return" /\ ret.val.type = "BitArray")

\* a string of another length than self: wrong type and wrong size at once
C5_Witness ==
    /\ call = "equals"
    /\ Other = Str(<<"1", "0">>) /\ LenOf(Self) = 1
    /\ ret = Raise("TypeError")

\* C9: == never raises; it is false for anything that is not a BitVector and for
\* a BitVector of another length, else true iff all elements agree; it is
\* reflexive, symmetric and transitive, blind to how a vector was built, and !=
\* is its negation.
C9_EqualityTotal ==
    /\ call = "__eq__"
           => /\ ret = Return(Bool(/\ Other.type = "BitArray"
                                   /\ LenOf(Other) = LenOf(Self)
                                   /\ \A i \in 1..LenOf(Self) : Bit(Self, i) = Bit(Other, i)))
              /\ Other = Self => ret = Return(Bool(TRUE))
              /\ Other.type = "BitArray" => __eq__(Other, Self) = ret
              /\ (Other.type = "BitArray" /\ Truthy(ret.val) /\ Truthy(__eq__(Other, Third).val))
                     => __eq__(Self, Third) = Return(Bool(TRUE))
              /\ \A src \in {AsStr(Self.items), AsBools(Self.items), AsInts(Self.items)} :
                     __eq__(Construct(src).val, Other) = ret
    /\ call = "__ne__"
           => /\ ret.kind = "return" /\ ret.val.type = "bool"
              /\ Truthy(ret.val) = ~ Truthy(__eq__(Self, Other).val)

C9_Witness ==
    /\ call = "__eq__"
    /\ LenOf(Self) = 2 /\ Other = List(Self.items)
    /\ ret = Return(Bool(FALSE))

-----------------------------------------------------------------------------
(* Properties of the evaluator (SpecExecute) *)

Executed == call = "execute"
Text == inputs[1].chars

Without(t, dropped) == SelectSeq(t, LAMBDA c : c \notin dropped)

\* the grammar  expression := operand operator operand,  operand := '~'? ('0'|'1')*
OperandBody(w) == IF w # <<>> /\ w[1] = "~" THEN Tail(w) ELSE w
IsOperand(w) == \A i \in 1..Len(OperandBody(w)) : OperandBody(w)[i] \in {"0", "1"}
\* the ways to cut w into operand, operator, operand: <<end of the first, end of the operator>>
Cuts(w) ==
    {c \in (0..Len(w)) \X (0..Len(w)) :
        /\ c[1] < c[2]
        /\ IsOperand(SubSeq(w, 1, c[1]))
        /\ SubSeq(w, c[1] + 1, c[2]) \in OpSymbols
        /\ IsOperand(SubSeq(w, c[2] + 1, Len(w)))}
UnequalOperands(w, c) ==
    Len(OperandBody(SubSeq(w, 1, c[1]))) # Len(OperandBody(SubSeq(w, c[2] + 1, Len(w))))

\* C1: execute never raises: it returns a BitVector or None for an input of any
\* type, and None when the input is not text, is empty, does not match the grammar
\* over its whole length once its spaces are removed, or has operands of
\* different lengths.
C1_NoErrorEscapes ==
    Executed
        => /\ ret.kind = "return"
           /\ ret.val.type \in {"BitArray", "NoneType"}
           /\ inputs[1].type # "str" => ret = Return(None)
           /\ inputs[1].type = "str"
                  => LET w == Without(Text, {" "})
                     IN  (\/ Text = <<>>
                          \/ Cuts(w) = {}
                          \/ \E c \in Cuts(w) : UnequalOperands(w, c))
                             => ret = Return(None)

\* "10 = 101"-like input: both operands are fine, their lengths differ
C1_Witness ==
    /\ Executed /\ shape.wf
    /\ Len(shape.x) = 2 /\ Len(shape.y) = 1 /\ shape.op = <<"=">>
    /\ ret = Return(None)

\* operand bit i once its "~" is applied
Operand(neg, lit, i) == (lit[i] = "1") # neg

OpTable(op, a, b) ==
    CASE op = <<"&">> -> a /\ b
      [] op = <<"|">> -> a \/ b
      [] op = <<"-", ">">> -> (~ a) \/ b
      [] op = <<"=">> -> a <=> b

Whitespace == {" ", "\t"}

\* C8 as stated: evaluating a text gives what evaluating it with all of its
\* whitespace (spaces, tabs, ...) removed gives.
C8_AsStated ==
    (Executed /\ inputs[1].type = "str")
        => ret = execute(Str(Without(Text, Whitespace)))

\* C8 amended: evaluating a text gives what evaluating it with all of its space
\* characters removed gives, wherever the spaces are; whitespace of another kind
\* (a tab) is not removed, and a text that holds one evaluates to None.
C8_SpacesOnly ==
    (Executed /\ inputs[1].type = "str")
        => /\ ret = execute(Str(Without(Text, {" "})))
           /\ (\E i \in 1..Len(Text) : Text[i] \in Whitespace \ {" "})
                  => ret = Return(None)

\* "1 | 0" with spaces around the operator
C8_Witness ==
    /\ Executed /\ shape.wf
    /\ shape.pads = <<0, 1, 1>> /\ shape.x = <<"1">> /\ shape.y = <<"0">>
    /\ ~ shape.xneg /\ ~ shape.yneg /\ shape.op = <<"|">>
    /\ ret = Return(BitArrayOf(<<Bool(TRUE)>>))

-----------------------------------------------------------------------------
(* Properties of a session (Spec) *)

Appends == {"append", "append_bits"}
IsPrefix(xs, ys) == Len(xs) <= Len(ys) /\ SubSeq(ys, 1, Len(xs)) = xs

C10_NoSharedStorage ==
    /\ [](\A o, p \in Instances : o # p => obj[o] # obj[p])
    /\ [][\A o \in Instances :
              (last'.op \in Appends /\ last'.self = o) \/ BitsOf(o)' = BitsOf(o)]_vars

\* y built from x.bits, then y extended: x is still what it was
C10_Witness ==
    /\ last = [op |-> "append", self |-> 2, ok |-> TRUE]
    /\ Len(obj) = 2
    /\ BitsOf(1) = <<Bool(TRUE)>>
    /\ BitsOf(2) = <<Bool(TRUE), Bool(FALSE)>>

=============================================================================
